---- MODULE Spec2Model ----
(***************************************************************************)
(* Model of the iterator-style getter of the clustered Data ONTAP client:  *)
(* Client.send_iter_request and Client._get_record_count                   *)
(* (cinder/volume/drivers/netapp/dataontap/client/client_cmode.py).        *)
(*                                                                         *)
(* One call of send_iter_request is followed from the invocation to its    *)
(* return or raise.  send_request (the page fetcher) is the environment:   *)
(* each round-trip answers with a page or raises a transport error.        *)
(*                                                                         *)
(* Python's None is modelled by an option: None is the empty sequence and  *)
(* a present value v is the one-element sequence <<v>>.  The text of an    *)
(* element is a sequence of one-character strings, so that int() and       *)
(* six.text_type() are computed and not assumed.                           *)
(***************************************************************************)
EXTENDS Integers, Sequences, FiniteSets, TLC

\* ------------------------------------------------------------------ bounds
\* Largest number of round-trips (send_request calls) followed in one call.
MaxCalls == 3

\* ------------------------------------------------------- program constants
DEFAULT_MAX_PAGE_LENGTH == 50

\* ----------------------------------------------------------------- options
None == <<>>
Some(v) == <<v>>
IsNone(o) == o = <<>>
Val(o) == o[1]

\* ------------------------------------------------------ int() and text_type
Digits == <<"0", "1", "2", "3", "4", "5", "6", "7", "8", "9">>

IsDigit(c) == \E d \in 1..10 : Digits[d] = c

DigitValue(c) == (CHOOSE d \in 1..10 : Digits[d] = c) - 1

\* The digits of a text after an optional sign.
Unsigned(s) == IF Len(s) > 0 /\ s[1] \in {"-", "+"} THEN Tail(s) ELSE s

\* int(s) succeeds on a str s: an optional sign followed by decimal digits.
IsIntText(s) ==
    /\ Len(Unsigned(s)) > 0
    /\ \A i \in 1..Len(Unsigned(s)) : IsDigit(Unsigned(s)[i])

RECURSIVE NatOf(_)
NatOf(s) == IF s = <<>> THEN 0
            ELSE 10 * NatOf(SubSeq(s, 1, Len(s) - 1)) + DigitValue(s[Len(s)])

\* int(s) for a str s on which int() succeeds.
IntOf(s) == IF s[1] = "-" THEN 0 - NatOf(Unsigned(s)) ELSE NatOf(Unsigned(s))

RECURSIVE NatText(_)
NatText(n) == IF n < 10 THEN <<Digits[n + 1]>>
              ELSE NatText(n \div 10) \o <<Digits[(n % 10) + 1]>>

\* six.text_type(n) for an int n.
TextOf(n) == IF n < 0 THEN <<"-">> \o NatText(0 - n) ELSE NatText(n)

\* ------------------------------------------------------------------- dicts
\* A dict is a function from its keys; {} is the function of empty domain.
EmptyDict == [k \in {} |-> 0]

\* d[key] = value
SetItem(d, key, value) ==
    [k \in (DOMAIN d) \cup {key} |-> IF k = key THEN value ELSE d[k]]

\* bool(d) of an optional dict: None and {} are falsy.
DictTruthy(o) == ~IsNone(o) /\ DOMAIN Val(o) # {}

\* ---------------------------------------------------------- the page fetcher
\* Content of <next-tag>: missing, empty, or a server cursor.
NextTags == {None, Some(""), Some("t1"), Some("t2")}

\* Pages with a parsable, non-negative <num-records> ("0" or "02") and an
\* <attributes-list> container (empty or holding records).
RegularPages ==
    [num_records : {Some(<<"0">>), Some(<<"0", "2">>)},
     attributes_list : {Some(<<>>), Some(<<"a">>), Some(<<"b", "a">>)},
     next_tag : NextTags]

\* Pages whose <num-records> is missing, no number ("x") or negative ("-1").
OddCountPages ==
    [num_records : {None, Some(<<"x">>), Some(<<"-", "1">>)},
     attributes_list : {Some(<<"a">>)},
     next_tag : {None, Some("t1")}]

\* Pages without an <attributes-list> container.
NoListPages ==
    [num_records : {None, Some(<<"x">>), Some(<<"0", "2">>)},
     attributes_list : {None},
     next_tag : {None, Some("t1")}]

\* One response of send_request, reduced to what send_iter_request reads.
Pages == RegularPages \cup OddCountPages \cup NoListPages

\* Errors raised by send_request itself.
TransportErrors == {"NaApiError", "IOError"}

\* What the caller passes as api_args: nothing, {} or a query.
CallerArgs == {None, Some(EmptyDict), Some([query |-> "q"])}

\* What the caller passes as max_page_length.
PageLengths == {DEFAULT_MAX_PAGE_LENGTH, 1}

\* ------------------------------------------------------------------- state
VARIABLES
    pc,              \* position of the call: idle, first_sent, loop,
                     \* next_sent, returned, raised
    callerArgs,      \* the caller's api_args object (None when not passed)
    aliased,         \* the local api_args is the caller's object
    api_args,        \* the dict created at line 96 when the local is not
                     \* the caller's object
    max_page_length, \* the max_page_length parameter
    result,          \* the first page, into which later pages are saved
    num_records,     \* the local num_records
    next_tag,        \* the local next_tag
    requests,        \* api_args of every send_request call issued, in order
    pages,           \* every page send_request has returned, in order
    fetchError,      \* the error send_request raised, if it did
    returned,        \* the value returned to the caller
    raised,          \* the exception that left send_iter_request
    cancelledAfter,  \* the pages received when the caller gave the call up
    getter,          \* the run of get_lun_list, get_lun_map or
                     \* get_igroup_by_initiators
    clone,           \* the run of clone_lun
    qos              \* the runs of mark_qos_policy_group_for_deletion

vars == <<pc, callerArgs, aliased, api_args, max_page_length, result,
          num_records, next_tag, requests, pages, fetchError, returned,
          raised, cancelledAfter, getter, clone, qos>>

\* The state of the other operations of the client, which a call of
\* send_iter_request leaves alone.
otherVars == <<cancelledAfter, getter, clone, qos>>

\* No getter loop is running.
GetterIdle ==
    [pc |-> "idle", fn |-> "", initiator_list |-> <<>>, tag |-> None,
     list |-> <<>>, requests |-> <<>>, results |-> <<>>,
     returned |-> None, raised |-> None]

\* clone_lun has not been called.
CloneIdle ==
    [pc |-> "idle", given |-> <<>>, z_calls |-> 0, zbc |-> 0, call |-> 0,
     block_count |-> 0, src_block |-> 0, dest_block |-> 0,
     invoked |-> <<>>, raised |-> None]

\* mark_qos_policy_group_for_deletion has not been called.
QosIdle ==
    [pc |-> "idle", qos_policy_group_info |-> None, rename |-> None,
     cleanup |-> None, invoked |-> <<>>, before |-> 0, raised |-> None,
     marks |-> 0]

\* The dict the local name api_args refers to.
ArgsObject == IF aliased THEN Val(callerArgs) ELSE api_args

\* Variant of _get_record_count: a missing count is read as 0.
_get_record_count_lenient(api_result_element) ==
    IF IsNone(api_result_element.num_records)
    THEN [error |-> None, value |-> 0]
    ELSE IF ~IsIntText(Val(api_result_element.num_records))
    THEN [error |-> Some("ValueError"), value |-> 0]
    ELSE [error |-> None,
          value |-> IntOf(Val(api_result_element.num_records))]

\* ------------------------------------------------------ _get_record_count
\* int(get_child_content('num-records')): None raises TypeError, which is
\* turned into NetAppDriverException; a str that is no integer raises
\* ValueError, which is not caught.
_get_record_count(api_result_element) ==
    IF IsNone(api_result_element.num_records)
    THEN [error |-> Some("NetAppDriverException"), value |-> 0]
    ELSE IF ~IsIntText(Val(api_result_element.num_records))
    THEN [error |-> Some("ValueError"), value |-> 0]
    ELSE [error |-> None,
          value |-> IntOf(Val(api_result_element.num_records))]

\* ------------------------------------------------------ send_iter_request
\* Line 95: "if not api_args" keeps the caller's object when it is truthy.
KeepsCallerObject(args) == DictTruthy(args)

\* Variant of NoMoreData: "if next_tag is None".
NoMoreDataIsNone(tag) == IsNone(tag)

\* Line 106: "if not next_tag" holds for a missing and for an empty tag.
NoMoreData(tag) == IsNone(tag) \/ Val(tag) = ""

\* Variant of LoopContinues: the loop gives up after two round-trips.
LoopContinuesBounded(tag) == ~IsNone(tag) /\ Len(requests) < 2

\* Line 117: "while next_tag is not None".
LoopContinues(tag) == ~IsNone(tag)

\* Variant of FastPathResult: the count of the page is rewritten from the
\* records it holds.
FastPathRecount(page) ==
    [page EXCEPT !.num_records =
        Some(TextOf(IF IsNone(page.attributes_list) THEN 0
                    ELSE Len(Val(page.attributes_list))))]

\* Line 107: the first page is returned as received.
FastPathResult(page) == page

\* Variant of MergeChildren: the records of a later page are put in front.
MergeChildrenPrepend(attributes_list, next_attributes_list) ==
    (IF IsNone(next_attributes_list) THEN <<>> ELSE Val(next_attributes_list))
        \o attributes_list

\* Variant of MergeChildren: the stand-in NaElement('none') of a page without
\* container is itself added as a record.
MergeChildrenNoneElement(attributes_list, next_attributes_list) ==
    attributes_list \o
        (IF IsNone(next_attributes_list) THEN <<"none">>
         ELSE Val(next_attributes_list))

\* Lines 123-127: the children of the page's attributes-list, or of the
\* empty NaElement('none'), are added at the end of the first page's list.
MergeChildren(attributes_list, next_attributes_list) ==
    attributes_list \o
        (IF IsNone(next_attributes_list) THEN <<>> ELSE Val(next_attributes_list))

\* Line 129: num_records += count.
AddRecordCount(total, count) == total + count

\* Variant of Finalize: the count is recomputed from the merged records.
FinalizeRecount(page, total) ==
    [page EXCEPT !.num_records = Some(TextOf(Len(Val(page.attributes_list)))),
                 !.next_tag = Some("")]

\* Variant of Finalize: the next-tag of the first page is left in place.
FinalizeKeepTag(page, total) ==
    [page EXCEPT !.num_records = Some(TextOf(total))]

\* Lines 132-134: the summed count and an empty next-tag are written into
\* the first page.
Finalize(page, total) ==
    [page EXCEPT !.num_records = Some(TextOf(total)),
                 !.next_tag = Some("")]

\* Variant of Propagate: the error is swallowed and what was merged so far
\* is handed back.
PropagatePartial(error, page) == [raised |-> None, returned |-> page]

\* Lines 101-102 and 120-121: an exception of send_request is not caught.
Propagate(error, page) == [raised |-> Some(error), returned |-> None]

Init ==
    /\ pc = "idle"
    /\ callerArgs \in CallerArgs
    /\ aliased = FALSE
    /\ api_args = EmptyDict
    /\ max_page_length = DEFAULT_MAX_PAGE_LENGTH
    /\ result = None
    /\ num_records = 0
    /\ next_tag = None
    /\ requests = <<>>
    /\ pages = <<>>
    /\ fetchError = None
    /\ returned = None
    /\ raised = None
    /\ cancelledAfter = None
    /\ getter = GetterIdle
    /\ clone = CloneIdle
    /\ qos = QosIdle

\* Lines 91-102: the arguments are prepared and the first page is requested.
Invoke(page_length) ==
    /\ pc = "idle"
    /\ max_page_length' = page_length
    /\ aliased' = KeepsCallerObject(callerArgs)
    /\ IF KeepsCallerObject(callerArgs)
       THEN /\ callerArgs' =
                   Some(SetItem(Val(callerArgs), "max-records", page_length))
            /\ api_args' = api_args
            /\ requests' = <<Val(callerArgs')>>
       ELSE /\ api_args' = SetItem(EmptyDict, "max-records", page_length)
            /\ callerArgs' = callerArgs
            /\ requests' = <<api_args'>>
    /\ pc' = "first_sent"
    /\ UNCHANGED <<result, num_records, next_tag, pages, fetchError,
                   returned, raised>>
    /\ UNCHANGED otherVars

\* Lines 101-102: send_request raises on the first round-trip.
FirstFail(error) ==
    /\ pc = "first_sent"
    /\ fetchError' = Some(error)
    /\ raised' = Propagate(error, result).raised
    /\ returned' = Propagate(error, result).returned
    /\ pc' = "raised"
    /\ UNCHANGED <<callerArgs, aliased, api_args, max_page_length, result,
                   num_records, next_tag, requests, pages>>
    /\ UNCHANGED otherVars

\* Lines 101-114: the first page arrives.
FirstPage(page) ==
    /\ pc = "first_sent"
    /\ pages' = <<page>>
    /\ result' = Some(page)
    /\ next_tag' = page.next_tag
    /\ IF NoMoreData(page.next_tag)
       THEN /\ returned' = Some(FastPathResult(page))
            /\ pc' = "returned"
            /\ UNCHANGED <<num_records, raised>>
       ELSE IF ~IsNone(_get_record_count(page).error)
       THEN /\ raised' = _get_record_count(page).error
            /\ pc' = "raised"
            /\ UNCHANGED <<num_records, returned>>
       ELSE IF IsNone(page.attributes_list)
       THEN /\ raised' = Some("NetAppDriverException")
            /\ pc' = "raised"
            /\ UNCHANGED <<num_records, returned>>
       ELSE /\ num_records' = _get_record_count(page).value
            /\ pc' = "loop"
            /\ UNCHANGED <<returned, raised>>
    /\ UNCHANGED <<callerArgs, aliased, api_args, max_page_length, requests,
                   fetchError>>
    /\ UNCHANGED otherVars

\* Variant of NextApiArgs: the tag of the first page is sent again.
NextApiArgsFirstTag(args, tag) ==
    SetItem(args, "tag", Val(Val(result).next_tag))

\* Variant of NextApiArgs: the request is built from the tag alone.
NextApiArgsTagOnly(args, tag) == SetItem(EmptyDict, "tag", Val(tag))

\* Variant of NextApiArgs: later pages are asked for with the default limit.
NextApiArgsDefaultLimit(args, tag) ==
    SetItem(SetItem(args, "tag", Val(tag)),
            "max-records", DEFAULT_MAX_PAGE_LENGTH)

\* Lines 118-119: next_api_args is a deep copy of api_args with the tag.
NextApiArgs(args, tag) == SetItem(args, "tag", Val(tag))

\* Variant of NextRequest: the loop asks for no further page once the
\* caller has given the call up.
NextRequestUnlessCancelled ==
    /\ pc = "loop"
    /\ LoopContinues(next_tag)
    /\ IsNone(cancelledAfter)
    /\ Len(requests) < MaxCalls
    /\ requests' = Append(requests, NextApiArgs(ArgsObject, next_tag))
    /\ pc' = "next_sent"
    /\ UNCHANGED <<callerArgs, aliased, api_args, max_page_length, result,
                   num_records, next_tag, pages, fetchError, returned, raised>>
    /\ UNCHANGED otherVars

\* Lines 117-121: the loop goes on and the next page is requested with a
\* deep copy of api_args that carries the tag.
NextRequest ==
    /\ pc = "loop"
    /\ LoopContinues(next_tag)
    /\ Len(requests) < MaxCalls
    /\ requests' = Append(requests, NextApiArgs(ArgsObject, next_tag))
    /\ pc' = "next_sent"
    /\ UNCHANGED <<callerArgs, aliased, api_args, max_page_length, result,
                   num_records, next_tag, pages, fetchError, returned, raised>>
    /\ UNCHANGED otherVars

\* Variant of NextFail: a failed round-trip is tried again while calls are
\* left.
NextFailRetry(error) ==
    /\ pc = "next_sent"
    /\ IF Len(requests) < MaxCalls
       THEN /\ requests' = Append(requests, requests[Len(requests)])
            /\ UNCHANGED <<pc, fetchError, raised, returned>>
       ELSE /\ fetchError' = Some(error)
            /\ raised' = Some(error)
            /\ returned' = None
            /\ pc' = "raised"
            /\ UNCHANGED requests
    /\ UNCHANGED <<callerArgs, aliased, api_args, max_page_length, result,
                   num_records, next_tag, pages>>
    /\ UNCHANGED otherVars

\* Lines 120-121: send_request raises on a later round-trip.
NextFail(error) ==
    /\ pc = "next_sent"
    /\ fetchError' = Some(error)
    /\ raised' = Propagate(error, result).raised
    /\ returned' = Propagate(error, result).returned
    /\ pc' = "raised"
    /\ UNCHANGED <<callerArgs, aliased, api_args, max_page_length, result,
                   num_records, next_tag, requests, pages>>
    /\ UNCHANGED otherVars

\* Lines 120-130: a later page arrives and is saved into the first page.
NextPage(page) ==
    /\ pc = "next_sent"
    /\ pages' = Append(pages, page)
    /\ result' = Some([Val(result) EXCEPT !.attributes_list =
                     Some(MergeChildren(Val(Val(result).attributes_list),
                                        page.attributes_list))])
    /\ IF ~IsNone(_get_record_count(page).error)
       THEN /\ raised' = _get_record_count(page).error
            /\ pc' = "raised"
            /\ UNCHANGED <<num_records, next_tag>>
       ELSE /\ num_records' = AddRecordCount(num_records,
                                  _get_record_count(page).value)
            /\ next_tag' = page.next_tag
            /\ pc' = "loop"
            /\ UNCHANGED raised
    /\ UNCHANGED <<callerArgs, aliased, api_args, max_page_length, requests,
                   fetchError, returned>>
    /\ UNCHANGED otherVars

\* Lines 117 and 132-135: the loop ends and the merged first page is
\* returned.
Finish ==
    /\ pc = "loop"
    /\ ~LoopContinues(next_tag)
    /\ result' = Some(Finalize(Val(result), num_records))
    /\ returned' = result'
    /\ pc' = "returned"
    /\ UNCHANGED <<callerArgs, aliased, api_args, max_page_length,
                   num_records, next_tag, requests, pages, fetchError, raised>>
    /\ UNCHANGED otherVars

Next ==
    \/ \E page_length \in PageLengths : Invoke(page_length)
    \/ \E error \in TransportErrors : FirstFail(error)
    \/ \E page \in Pages : FirstPage(page)
    \/ NextRequest
    \/ \E error \in TransportErrors : NextFail(error)
    \/ \E page \in Pages : NextPage(page)
    \/ Finish

Spec == Init /\ [][Next]_vars

\* ------------------------------------------------------------- properties
\* The records of a page; a page without container holds none.
ItemsOf(page) ==
    IF IsNone(page.attributes_list) THEN <<>> ELSE Val(page.attributes_list)

\* items(p1) ++ ... ++ items(pN)
RECURSIVE ConcatItems(_)
ConcatItems(ps) ==
    IF ps = <<>> THEN <<>>
    ELSE ConcatItems(SubSeq(ps, 1, Len(ps) - 1)) \o ItemsOf(ps[Len(ps)])

\* The record count of a page parses as an integer.
CountParses(page) ==
    ~IsNone(page.num_records) /\ IsIntText(Val(page.num_records))

\* The record count of a page is a non-negative integer.
CountValid(page) == CountParses(page) /\ IntOf(Val(page.num_records)) >= 0

\* The sum of the record counts the pages declare.
RECURSIVE DeclaredSum(_)
DeclaredSum(ps) ==
    IF ps = <<>> THEN 0
    ELSE DeclaredSum(SubSeq(ps, 1, Len(ps) - 1))
             + IntOf(Val(ps[Len(ps)].num_records))

\* A page carries a continuation token: next-tag is present and not empty.
CarriesToken(page) == ~IsNone(page.next_tag) /\ Val(page.next_tag) # ""

\* p1..p(N-1) carry a token, pN carries none, every page has a valid count
\* and an item container.
CompleteListing(ps) ==
    /\ Len(ps) >= 1
    /\ \A i \in 1..(Len(ps) - 1) : CarriesToken(ps[i])
    /\ ~CarriesToken(ps[Len(ps)])
    /\ \A i \in 1..Len(ps) :
           CountValid(ps[i]) /\ ~IsNone(ps[i].attributes_list)

\* C1: when the call has returned over a listing p1..pN whose pages before
\* the last carry a token and whose last page carries none, the items of the
\* result are items(p1) ++ ... ++ items(pN), in that order.
C1_Concatenation ==
    (pc = "returned" /\ CompleteListing(pages))
        => Val(returned).attributes_list = Some(ConcatItems(pages))

\* C1 witness: a three-page listing with different records per page has been
\* merged and returned.
C1_Witness ==
    /\ pc = "returned"
    /\ CompleteListing(pages)
    /\ Len(pages) = 3
    /\ ItemsOf(pages[1]) = <<"b", "a">>
    /\ ItemsOf(pages[2]) = <<"a">>
    /\ ItemsOf(pages[3]) = <<"b", "a">>

\* C2: on every return the count of the result is the sum of the counts the
\* fetched pages declared: the text of the sum after a merge, the count of
\* the only page as received on the fast path.
C2_CountSum ==
    pc = "returned" =>
        /\ Len(pages) > 1 =>
               Val(returned).num_records = Some(TextOf(DeclaredSum(pages)))
        /\ Len(pages) = 1 => Val(returned).num_records = pages[1].num_records
        /\ (\A i \in 1..Len(pages) : CountParses(pages[i])) =>
               IntOf(Val(Val(returned).num_records)) = DeclaredSum(pages)

\* C2 witness: three pages were merged and returned, a page declared "02"
\* records while holding none, and the records returned are not as many as
\* the count says.
C2_Witness ==
    /\ pc = "returned"
    /\ Len(pages) = 3
    /\ \E i \in 1..3 : /\ pages[i].num_records = Some(<<"0", "2">>)
                       /\ ItemsOf(pages[i]) = <<>>
    /\ Val(returned).num_records = Some(<<"4">>)
    /\ Len(Val(Val(returned).attributes_list)) # 4

\* C3: a returned result has a missing or an empty next-tag.
C3_TokenCleared ==
    pc = "returned" =>
        (IsNone(Val(returned).next_tag) \/ Val(Val(returned).next_tag) = "")

\* C3 witness: a result merged from pages that carried tokens was returned.
C3_Witness ==
    /\ pc = "returned"
    /\ Len(pages) >= 2
    /\ pages[1].next_tag = Some("t1")
    /\ pages[2].next_tag = Some("t2")

\* C4: when the first page carries no token, the call has returned that page
\* as received after one send_request call.
C4_FastPath ==
    (Len(pages) >= 1 /\ ~CarriesToken(pages[1])) =>
        /\ pc = "returned"
        /\ Len(requests) = 1
        /\ Len(pages) = 1
        /\ returned = Some(pages[1])

\* C4 witness: a first page with an empty next-tag and records was returned.
C4_Witness ==
    /\ pc = "returned"
    /\ Len(pages) = 1
    /\ pages[1].next_tag = Some("")
    /\ ItemsOf(pages[1]) = <<"b", "a">>

\* C5: a first page with a token and without item container makes the call
\* raise NetAppDriverException after exactly one send_request call.
C5_MalformedFirstPage ==
    (Len(pages) >= 1 /\ CarriesToken(pages[1])
                     /\ IsNone(pages[1].attributes_list)) =>
        /\ pc = "raised"
        /\ raised = Some("NetAppDriverException")
        /\ Len(requests) = 1

\* Some fetched page has no record count.
MissingCountFetched ==
    \E i \in 1..Len(pages) : IsNone(pages[i].num_records)

\* The only page fetched is a first page without token.
SolePageWithoutToken == Len(pages) = 1 /\ ~CarriesToken(pages[1])

\* C6 as claimed: a page without record count, at any position, makes the
\* call raise NetAppDriverException and return nothing.
C6_MissingCountAnywhere ==
    MissingCountFetched =>
        /\ pc = "raised"
        /\ raised = Some("NetAppDriverException")
        /\ returned = None

\* C6 as amended: a page without record count makes the call raise
\* NetAppDriverException and return nothing when it is a first page with a
\* token or any later page; a sole first page without token is returned as
\* received.
C6_MissingCountPaginated ==
    MissingCountFetched =>
        IF SolePageWithoutToken
        THEN pc = "returned" /\ returned = Some(pages[1]) /\ raised = None
        ELSE /\ pc = "raised"
             /\ raised = Some("NetAppDriverException")
             /\ returned = None

\* C6 witness: the third page of a listing came without record count and
\* the call has raised.
C6_Witness ==
    /\ Len(pages) = 3
    /\ IsNone(pages[3].num_records)
    /\ IsNone(pages[3].next_tag)
    /\ pc = "raised"

\* C7: a page whose record count is read (a first page with a token, or a
\* later page) and is present but no non-negative integer makes the call
\* raise NetAppDriverException and return nothing.
C7_BadCountIsMalformed ==
    (/\ ~SolePageWithoutToken
     /\ \E i \in 1..Len(pages) :
            ~IsNone(pages[i].num_records) /\ ~CountValid(pages[i])) =>
        /\ pc = "raised"
        /\ raised = Some("NetAppDriverException")
        /\ returned = None

\* C8: when send_request has raised, the call has raised that same error
\* and has returned nothing.
C8_TransportErrorPropagates ==
    ~IsNone(fetchError) =>
        /\ pc = "raised"
        /\ raised = fetchError
        /\ returned = None

\* C8 witness: the third round-trip failed after two pages had been merged.
C8_Witness ==
    /\ fetchError = Some("IOError")
    /\ Len(requests) = 3
    /\ Len(pages) = 2
    /\ Val(Val(result).attributes_list) = <<"a", "b", "a">>
    /\ pc = "raised"

\* C9: no step of the call changes the caller's api_args mapping.
C9_CallerArgsUntouched == [][callerArgs' = callerArgs]_vars

\* The index of the first fetched page without token, 0 when there is none.
FirstPageWithoutToken ==
    IF \E i \in 1..Len(pages) : ~CarriesToken(pages[i])
    THEN CHOOSE i \in 1..Len(pages) :
             /\ ~CarriesToken(pages[i])
             /\ \A j \in 1..(i - 1) : CarriesToken(pages[j])
    ELSE 0

\* C10: once a page without token has been fetched, no further round-trip
\* is issued: the calls made are as many as the index of that page.
C10_StopsAtFirstPageWithoutToken ==
    FirstPageWithoutToken # 0 => Len(requests) = FirstPageWithoutToken

\* ------------------------------------------------- the merge path, one page
\* Lines 109-114 and 132-135 applied to a page as the only page of the
\* listing (the loop of lines 117-130 is not entered): the count is read,
\* the container is required, and the count and an empty next-tag are
\* written back.
GeneralPath(page) ==
    IF ~IsNone(_get_record_count(page).error)
    THEN [raised |-> _get_record_count(page).error, returned |-> None]
    ELSE IF IsNone(page.attributes_list)
    THEN [raised |-> Some("NetAppDriverException"), returned |-> None]
    ELSE [raised |-> None,
          returned |-> Some(Finalize(page, _get_record_count(page).value))]

\* Two results hold the same records, the same count as an integer, and
\* both carry no token.
SameResult(a, b) ==
    /\ a.attributes_list = b.attributes_list
    /\ CountParses(a) /\ CountParses(b)
    /\ IntOf(Val(a.num_records)) = IntOf(Val(b.num_records))
    /\ ~CarriesToken(a) /\ ~CarriesToken(b)

TwoCallPages ==
    [num_records : {Some(<<"0", "2">>)},
     attributes_list : {Some(<<"a">>), Some(<<"b", "a">>)},
     next_tag : {None, Some("t1"), Some("t2")}]

\* Lines 95-98 of a second send_iter_request call that was handed the same
\* api_args object as the call followed: a truthy mapping is kept and that
\* call's max-records is written into it.  The rest of that call works on
\* its own locals and on deep copies (lines 118-119) and touches nothing the
\* call followed can see.
OtherInvoke(page_length) ==
    /\ KeepsCallerObject(callerArgs)
    /\ callerArgs' = Some(SetItem(Val(callerArgs), "max-records", page_length))
    /\ UNCHANGED <<pc, aliased, api_args, max_page_length, result,
                   num_records, next_tag, requests, pages, fetchError,
                   returned, raised>>
    /\ UNCHANGED otherVars

NextTwo ==
    \/ \E page_length \in PageLengths : Invoke(page_length)
    \/ \E page_length \in PageLengths : OtherInvoke(page_length)
    \/ \E error \in TransportErrors : FirstFail(error)
    \/ \E page \in TwoCallPages : FirstPage(page)
    \/ NextRequest
    \/ \E error \in TransportErrors : NextFail(error)
    \/ \E page \in TwoCallPages : NextPage(page)
    \/ Finish

SpecTwo == Init /\ [][NextTwo]_vars

\* The arguments the call passes to its k-th send_request when it runs
\* alone: the caller's arguments (none when the caller passed a falsy
\* mapping) with the call's own limit and, after the first request, the
\* token of the page before.
AloneRequest(k) ==
    IF k = 1
    THEN SetItem(IF DictTruthy(callerArgs) THEN Val(callerArgs) ELSE EmptyDict,
                 "max-records", max_page_length)
    ELSE SetItem(SetItem(IF DictTruthy(callerArgs) THEN Val(callerArgs)
                         ELSE EmptyDict,
                         "max-records", max_page_length),
                 "tag", Val(pages[k - 1].next_tag))

\* C12: beside a second call on the same arguments mapping, every request
\* of the call followed is the request it issues when it runs alone.
C12_RequestsAsIfAlone ==
    \A k \in 1..Len(requests) : requests[k] = AloneRequest(k)

\* The first page reports no records: count "0", an empty container and no
\* token.
ZeroRecordsFirstPage ==
    /\ Len(pages) >= 1
    /\ pages[1].num_records = Some(<<"0">>)
    /\ pages[1].attributes_list = Some(<<>>)
    /\ ~CarriesToken(pages[1])

\* C13: a first page with count 0, no records and no token is returned with
\* count 0 and no records after one round-trip, and nothing is raised.
C13_ZeroRecords ==
    ZeroRecordsFirstPage =>
        /\ pc = "returned"
        /\ raised = None
        /\ Len(requests) = 1
        /\ Val(returned).num_records = Some(<<"0">>)
        /\ Val(returned).attributes_list = Some(<<>>)

\* C13 witness: the call has returned a first page that reported no records.
C13_Witness ==
    /\ ZeroRecordsFirstPage
    /\ pc = "returned"
    /\ IntOf(Val(Val(returned).num_records)) = 0

\* C14: the first request carries no tag, and every later request carries
\* the next-tag of the page received just before it.
C14_TokenForwarding ==
    /\ Len(requests) >= 1 => "tag" \notin DOMAIN requests[1]
    /\ \A k \in 2..Len(requests) :
           /\ "tag" \in DOMAIN requests[k]
           /\ ~IsNone(pages[k - 1].next_tag)
           /\ requests[k]["tag"] = Val(pages[k - 1].next_tag)

\* C14 witness: the pages came with the tags t1 and then t2, and the third
\* request carries t2.
C14_Witness ==
    /\ Len(requests) = 3
    /\ pages[1].next_tag = Some("t1")
    /\ pages[2].next_tag = Some("t2")
    /\ requests[2]["tag"] = "t1"
    /\ requests[3]["tag"] = "t2"

\* C15: every request after the first is the first request plus the
\* current tag and nothing else, and the dict the requests are built from
\* never holds a tag.
C15_RequestsFromOriginalArgs ==
    /\ \A k \in 2..Len(requests) :
           /\ requests[k] =
                  SetItem(requests[1], "tag", Val(pages[k - 1].next_tag))
           /\ DOMAIN requests[k] = (DOMAIN requests[1]) \cup {"tag"}
    /\ pc # "idle" => "tag" \notin DOMAIN ArgsObject

\* C15 witness: a third request was built for a caller who passed a query,
\* after a second request that carried another tag.
C15_Witness ==
    /\ Len(requests) = 3
    /\ requests[1] = [k \in {"query", "max-records"} |->
                          IF k = "query" THEN "q" ELSE max_page_length]
    /\ requests[2]["tag"] = "t2"
    /\ requests[3]["tag"] = "t1"

\* C16: every request of the call carries max-records, set to the call's
\* max_page_length; that is 50 for a caller who passes the default.
C16_LimitOnEveryRequest ==
    /\ \A k \in 1..Len(requests) :
           /\ "max-records" \in DOMAIN requests[k]
           /\ requests[k]["max-records"] = max_page_length
    /\ max_page_length = DEFAULT_MAX_PAGE_LENGTH =>
           \A k \in 1..Len(requests) : requests[k]["max-records"] = 50

\* C16 witness: a caller who set max_page_length to 1 has issued three
\* requests, each with max-records 1.
C16_Witness ==
    /\ Len(requests) = 3
    /\ max_page_length = 1
    /\ \A k \in 1..3 : requests[k]["max-records"] = 1

\* C17: when the call has raised, send_request was called once per page
\* received, plus once for the round-trip that raised a transport error:
\* the failed round-trip was the last one.
C17_NoRetry ==
    pc = "raised" =>
        Len(requests) = Len(pages) + (IF IsNone(fetchError) THEN 0 ELSE 1)

\* C17 witness: the third page came without record count and the call
\* raised after three send_request calls.
C17_Witness ==
    /\ pc = "raised"
    /\ raised = Some("NetAppDriverException")
    /\ IsNone(fetchError)
    /\ Len(pages) = 3
    /\ Len(requests) = 3

\* ------------------------------------------------- a server that never ends
\* Pages of a server that never ends the listing: a count, records and a
\* token on every page.
EndlessPages ==
    [num_records : {Some(<<"0", "2">>)},
     attributes_list : {Some(<<"a">>), Some(<<"b", "a">>)},
     next_tag : {Some("t1"), Some("t2")}]

\* The call against that server.  The loop exit (Finish) is no step here:
\* C18 shows it is never enabled.
NextForever ==
    \/ \E page_length \in PageLengths : Invoke(page_length)
    \/ \E page \in EndlessPages : FirstPage(page)
    \/ NextRequest
    \/ \E page \in EndlessPages : NextPage(page)

\* The call runs on and the server answers every request.
SpecForever == Init /\ [][NextForever]_vars /\ WF_vars(NextForever)

\* C18: against a server whose every page carries a token the call neither
\* returns nor raises and its loop exit is never enabled; every page merged
\* makes the records and the count grow; and the round-trips go on up to
\* the number followed.
C18_NeverEnds ==
    /\ [](pc \notin {"returned", "raised"} /\ ~ENABLED Finish)
    /\ [][(pc = "next_sent" /\ pc' = "loop") =>
              /\ num_records' > num_records
              /\ Len(Val(Val(result').attributes_list))
                     > Len(Val(Val(result).attributes_list))]_vars
    /\ <>(Len(requests) = MaxCalls /\ Len(pages) = MaxCalls)

\* C18 witness: the server has sent the same token on every page and the
\* call is still in its loop, holding the records of all pages.
C18_Witness ==
    /\ pc = "loop"
    /\ Len(pages) = MaxCalls
    /\ \A k \in 1..Len(pages) : pages[k].next_tag = Some("t1")
    /\ next_tag = Some("t1")
    /\ num_records = 2 * Len(pages)
    /\ Len(Val(Val(result).attributes_list)) >= Len(pages)

\* C19: a page with an empty next-tag ends the listing at any position: no
\* request is issued after it.
C19_EmptyTagEndsListing ==
    \A k \in 1..Len(pages) :
        pages[k].next_tag = Some("") => Len(requests) <= k

\* The page received last came after the first and has no container.
LaterPageWithoutContainer ==
    /\ Len(pages) >= 2
    /\ IsNone(pages[Len(pages)].attributes_list)

\* C20: a later page without container and with a count that parses does
\* not make the call fail; once it is merged, the records are those of the
\* pages before it, its count is in the running total and its next-tag is
\* the local next_tag.
C20_LaterPageWithoutContainer ==
    (LaterPageWithoutContainer /\ CountParses(pages[Len(pages)])) =>
        /\ pc \in {"loop", "next_sent", "returned"}
           \/ (pc = "raised" /\ raised = fetchError)
        /\ pc = "loop" =>
               /\ Val(Val(result).attributes_list) =
                      ConcatItems(SubSeq(pages, 1, Len(pages) - 1))
               /\ num_records = DeclaredSum(pages)
               /\ num_records =
                      DeclaredSum(SubSeq(pages, 1, Len(pages) - 1))
                          + IntOf(Val(pages[Len(pages)].num_records))
               /\ next_tag = pages[Len(pages)].next_tag

\* C20 witness: the second page had no container, count "02" and the tag
\* t1; the call is in its loop with the records of the first page only.
C20_Witness ==
    /\ pc = "loop"
    /\ Len(pages) = 2
    /\ pages[2] = [num_records |-> Some(<<"0", "2">>),
                   attributes_list |-> None,
                   next_tag |-> Some("t1")]
    /\ ItemsOf(pages[1]) = <<"b", "a">>
    /\ Val(Val(result).attributes_list) = <<"b", "a">>
    /\ next_tag = Some("t1")

\* ------------------------------------------------- the hand-written loops
\* get_lun_list (243-269), get_lun_map (271-298) and
\* get_igroup_by_initiators (330-375) page through a listing themselves.
Getters == {"get_lun_list", "get_lun_map", "get_igroup_by_initiators"}

\* What the caller of get_igroup_by_initiators passes as initiator_list.
InitiatorLists == {<<>>, <<"i1">>, <<"i1", "i2">>}

\* The initiator-name children of an igroup record of a page.
InitiatorsOf(igroup_info) ==
    IF igroup_info = "a" THEN {"i1"} ELSE {"i1", "i2"}

\* The responses of invoke_successfully to a getter.
GetterPages ==
    [num_records : {None, Some(<<"0">>), Some(<<"0", "2">>), Some(<<"x">>)},
     attributes_list : {None, Some(<<"a", "b">>)},
     next_tag : NextTags]

\* 'if tag:' (254, 278, 303): the request gets a tag child only for a tag
\* that is neither None nor ''.  A request is reduced to its tag child.
TagChild(tag) == IF ~IsNone(tag) /\ Val(tag) # "" THEN tag ELSE None

\* 'if tag is None: break' (267, 296, 372)
GetterBreaks(tag) == IsNone(tag)

\* The exception the handling of the records raises, if any (262-265,
\* 285-295, 347-370): int() of a count that is no number is a ValueError,
\* a missing attributes-list is None and has no get_children.
RecordsError(page) ==
    IF IsNone(page.num_records) THEN None
    ELSE IF ~IsIntText(Val(page.num_records)) THEN Some("ValueError")
    ELSE IF IntOf(Val(page.num_records)) >= 1 /\ IsNone(page.attributes_list)
         THEN Some("AttributeError")
    ELSE None

\* The igroups of a page whose initiators are exactly initiator_list (360).
RECURSIVE MatchingIgroups(_, _)
MatchingIgroups(records, initiator_list) ==
    IF records = <<>> THEN <<>>
    ELSE (IF InitiatorsOf(Head(records))
             = {initiator_list[i] : i \in 1..Len(initiator_list)}
          THEN <<Head(records)>> ELSE <<>>)
         \o MatchingIgroups(Tail(records), initiator_list)

\* What a page without error adds to luns, map_list or igroup_list.
RecordsOf(fn, initiator_list, page) ==
    IF IsNone(page.num_records) \/ IntOf(Val(page.num_records)) < 1
    THEN <<>>
    ELSE IF fn = "get_igroup_by_initiators"
         THEN MatchingIgroups(Val(page.attributes_list), initiator_list)
    ELSE Val(page.attributes_list)

\* The call of a getter up to the top of 'while True'; an empty
\* initiator_list returns at once (334-335).
GetterCall(fn, initiator_list) ==
    /\ getter.pc = "idle"
    /\ fn = "get_igroup_by_initiators" \/ initiator_list = <<>>
    /\ getter' =
         IF fn = "get_igroup_by_initiators" /\ initiator_list = <<>>
         THEN [getter EXCEPT !.fn = fn, !.pc = "returned",
                             !.returned = Some(<<>>)]
         ELSE [getter EXCEPT !.fn = fn, !.pc = "top",
                             !.initiator_list = initiator_list]
    /\ UNCHANGED <<pc, callerArgs, aliased, api_args, max_page_length,
                   result, num_records, next_tag, requests, pages,
                   fetchError, returned, raised, cancelledAfter, clone,
                   qos>>

\* The top of the loop body: the request is built and invoked (252-261,
\* 276-283, 343-344).
GetterRequest ==
    /\ getter.pc = "top"
    /\ Len(getter.requests) < MaxCalls
    /\ getter' = [getter EXCEPT
                    !.requests = Append(@, TagChild(getter.tag)),
                    !.pc = "invoked"]
    /\ UNCHANGED <<pc, callerArgs, aliased, api_args, max_page_length,
                   result, num_records, next_tag, requests, pages,
                   fetchError, returned, raised, cancelledAfter, clone,
                   qos>>

\* invoke_successfully raises: no getter catches anything.
GetterFail(error) ==
    /\ getter.pc = "invoked"
    /\ getter' = [getter EXCEPT !.pc = "raised", !.raised = Some(error)]
    /\ UNCHANGED <<pc, callerArgs, aliased, api_args, max_page_length,
                   result, num_records, next_tag, requests, pages,
                   fetchError, returned, raised, cancelledAfter, clone,
                   qos>>

\* invoke_successfully returns a page: the rest of the loop body (262-268,
\* 284-297, 346-373).
GetterPage(page) ==
    /\ getter.pc = "invoked"
    /\ getter' =
         IF ~IsNone(RecordsError(page))
         THEN [getter EXCEPT !.results = Append(@, page),
                             !.pc = "raised",
                             !.raised = RecordsError(page)]
         ELSE LET list == getter.list \o
                          RecordsOf(getter.fn, getter.initiator_list, page)
              IN  IF GetterBreaks(page.next_tag)
                  THEN [getter EXCEPT !.results = Append(@, page),
                                      !.list = list,
                                      !.tag = page.next_tag,
                                      !.pc = "returned",
                                      !.returned = Some(list)]
                  ELSE [getter EXCEPT !.results = Append(@, page),
                                      !.list = list,
                                      !.tag = page.next_tag,
                                      !.pc = "top"]
    /\ UNCHANGED <<pc, callerArgs, aliased, api_args, max_page_length,
                   result, num_records, next_tag, requests, pages,
                   fetchError, returned, raised, cancelledAfter, clone,
                   qos>>

\* The client before any call of the operations below; no
\* send_iter_request call is followed.
InitOther == Init /\ callerArgs = None

NextGetter ==
    \/ \E fn \in Getters, initiator_list \in InitiatorLists :
         GetterCall(fn, initiator_list)
    \/ GetterRequest
    \/ \E error \in TransportErrors : GetterFail(error)
    \/ \E page \in GetterPages : GetterPage(page)

SpecGetter == InitOther /\ [][NextGetter]_vars

\* C21: in get_lun_list, get_lun_map and get_igroup_by_initiators every
\* request after the first carries the next-tag of the response before it
\* (so it never asks for the first page again), and no request follows a
\* response without a next-tag.
C21_LoopForwardsTag ==
    /\ \A k \in 2..Len(getter.requests) :
         /\ ~IsNone(getter.requests[k])
         /\ getter.requests[k] = getter.results[k - 1].next_tag
    /\ \A k \in 1..Len(getter.results) :
         ~CarriesToken(getter.results[k]) => Len(getter.requests) <= k

\* ------------------------------------------------ a caller that gives up
\* The caller gives the call up while it runs.  send_iter_request (91-92)
\* has no parameter for a cancellation or a timeout, send_request is handed
\* api_name, the arguments and enable_tunneling only (101-102, 120-121), and
\* nothing of the call reads what the caller did: the step records the
\* pages received so far and changes nothing else.
Cancel ==
    /\ pc \in {"first_sent", "loop", "next_sent"}
    /\ IsNone(cancelledAfter)
    /\ cancelledAfter' = Some(Len(pages))
    /\ UNCHANGED <<pc, callerArgs, aliased, api_args, max_page_length,
                   result, num_records, next_tag, requests, pages,
                   fetchError, returned, raised, getter, clone, qos>>

NextCancel ==
    \/ \E page_length \in PageLengths : Invoke(page_length)
    \/ Cancel
    \/ \E error \in TransportErrors : FirstFail(error)
    \/ \E page \in TwoCallPages : FirstPage(page)
    \/ NextRequest
    \/ \E error \in TransportErrors : NextFail(error)
    \/ \E page \in TwoCallPages : NextPage(page)
    \/ Finish

SpecCancel == Init /\ [][NextCancel]_vars

bc_limit == 2

br_limit == 3

MaxBlockCount == 14

\* Line 384
z_limit == br_limit * bc_limit

\* What the caller passes as block_count, src_block and dest_block.
BlockCounts == 0..MaxBlockCount

SrcBlocks == {0, 7}

DestBlocks == {0, 3}

\* int(math.ceil(n / float(limit))) for n >= 0 (385, 411); the
\* float division is exact for the numbers followed.
CeilDiv(n, limit) == (n + limit - 1) \div limit

\* Line 385 with 387-388: the number of clone-create calls.
ZCalls(block_count) ==
    IF CeilDiv(block_count, z_limit) = 0 THEN 1
    ELSE CeilDiv(block_count, z_limit)

\* The mutant of Segments: the number of ranges is rounded down.
SegmentsFloor(block_count) == block_count \div bc_limit

\* Line 411: the number of block ranges of one call.
Segments(block_count) == CeilDiv(block_count, bc_limit)

\* Lines 412-430: the block-range children of one call, from the blocks bc
\* still to place and the running src_block and dest_block; the numbers are
\* written as text.
RECURSIVE BlockRanges(_, _, _, _)
BlockRanges(segments, bc, src_block, dest_block) ==
    IF segments = 0 THEN <<>>
    ELSE LET block_count == IF bc > bc_limit THEN bc_limit ELSE bc
             left == IF bc > bc_limit THEN bc - bc_limit ELSE bc
         IN  <<[source_block_number |-> TextOf(src_block),
                destination_block_number |-> TextOf(dest_block),
                block_count |-> TextOf(block_count)]>>
             \o BlockRanges(segments - 1, left, src_block + block_count,
                            dest_block + block_count)

\* Lines 429-430 over one call: how far src_block and dest_block have moved.
RECURSIVE BlocksPlaced(_, _)
BlocksPlaced(segments, bc) ==
    IF segments = 0 THEN 0
    ELSE (IF bc > bc_limit THEN bc_limit ELSE bc)
         + BlocksPlaced(segments - 1,
                        IF bc > bc_limit THEN bc - bc_limit ELSE bc)

\* Lines 377-388: the call of clone_lun up to the loop over z_calls.
CloneLun(block_count, src_block, dest_block) ==
    /\ clone.pc = "idle"
    /\ clone' = [clone EXCEPT
                   !.given = Some([block_count |-> block_count,
                                   src_block |-> src_block,
                                   dest_block |-> dest_block]),
                   !.z_calls = ZCalls(block_count),
                   !.zbc = block_count,
                   !.block_count = block_count,
                   !.src_block = src_block,
                   !.dest_block = dest_block,
                   !.pc = "call"]
    /\ UNCHANGED <<pc, callerArgs, aliased, api_args, max_page_length,
                   result, num_records, next_tag, requests, pages,
                   fetchError, returned, raised, cancelledAfter, getter,
                   qos>>

\* Lines 389-432: one pass of the loop up to invoke_successfully; the
\* clone-create element is reduced to its block-ranges child, None when the
\* call carries none.
CloneCreate ==
    /\ clone.pc = "call"
    /\ clone.call < clone.z_calls
    /\ LET block_count == IF clone.zbc > z_limit THEN z_limit ELSE clone.zbc
           block_ranges ==
               IF block_count > 0
               THEN Some(BlockRanges(Segments(block_count), block_count,
                                     clone.src_block, clone.dest_block))
               ELSE None
           placed == BlocksPlaced(Segments(block_count), block_count)
       IN  clone' = [clone EXCEPT
                       !.zbc = IF clone.zbc > z_limit THEN @ - z_limit ELSE @,
                       !.block_count =
                           IF block_count > 0 /\ Segments(block_count) > 0
                           THEN IntOf((Val(block_ranges))[
                                    Len(Val(block_ranges))].block_count)
                           ELSE block_count,
                       !.src_block = @ + placed,
                       !.dest_block = @ + placed,
                       !.invoked = Append(@, [block_ranges |-> block_ranges]),
                       !.pc = "invoked"]
    /\ UNCHANGED <<pc, callerArgs, aliased, api_args, max_page_length,
                   result, num_records, next_tag, requests, pages,
                   fetchError, returned, raised, cancelledAfter, getter,
                   qos>>

\* invoke_successfully (432) returns: the next pass, or the end of the loop.
CloneCreated ==
    /\ clone.pc = "invoked"
    /\ clone' = [clone EXCEPT
                   !.call = @ + 1,
                   !.pc = IF clone.call + 1 < clone.z_calls THEN "call"
                          ELSE "returned"]
    /\ UNCHANGED <<pc, callerArgs, aliased, api_args, max_page_length,
                   result, num_records, next_tag, requests, pages,
                   fetchError, returned, raised, cancelledAfter, getter,
                   qos>>

\* invoke_successfully (432) raises: clone_lun catches nothing.
CloneFail(error) ==
    /\ clone.pc = "invoked"
    /\ clone' = [clone EXCEPT !.pc = "raised", !.raised = Some(error)]
    /\ UNCHANGED <<pc, callerArgs, aliased, api_args, max_page_length,
                   result, num_records, next_tag, requests, pages,
                   fetchError, returned, raised, cancelledAfter, getter,
                   qos>>

NextClone ==
    \/ \E block_count \in BlockCounts, src_block \in SrcBlocks,
          dest_block \in DestBlocks :
         CloneLun(block_count, src_block, dest_block)
    \/ CloneCreate
    \/ CloneCreated
    \/ \E error \in TransportErrors : CloneFail(error)

SpecClone == InitOther /\ [][NextClone]_vars

\* The block ranges of the clone-create calls issued, in order.
RECURSIVE FlatRanges(_)
FlatRanges(calls) ==
    IF calls = <<>> THEN <<>>
    ELSE (IF IsNone(Head(calls).block_ranges) THEN <<>>
          ELSE Val(Head(calls).block_ranges)) \o FlatRanges(Tail(calls))

RECURSIVE SumBlockCounts(_)
SumBlockCounts(ranges) ==
    IF ranges = <<>> THEN 0
    ELSE IntOf(Head(ranges).block_count) + SumBlockCounts(Tail(ranges))

\* C23: the block ranges of all clone-create calls, in order, are numbers
\* written as text, start at the given src_block and dest_block, follow one
\* another without gap or overlap, hold 1..bc_limit blocks each and are at
\* most br_limit to a call; when clone_lun returns they add up to the given
\* block_count, and for block_count = 0 exactly one call was issued, without
\* block ranges.
C23_Chunking ==
    clone.pc # "idle" =>
      LET given == Val(clone.given)
          ranges == FlatRanges(clone.invoked)
      IN  /\ \A i \in 1..Len(ranges) :
                /\ IsIntText(ranges[i].source_block_number)
                /\ IsIntText(ranges[i].destination_block_number)
                /\ IsIntText(ranges[i].block_count)
                /\ IntOf(ranges[i].block_count) \in 1..bc_limit
          /\ ranges # <<>> =>
                /\ IntOf(ranges[1].source_block_number) = given.src_block
                /\ IntOf(ranges[1].destination_block_number)
                       = given.dest_block
          /\ \A i \in 1..(Len(ranges) - 1) :
                /\ IntOf(ranges[i + 1].source_block_number)
                       = IntOf(ranges[i].source_block_number)
                           + IntOf(ranges[i].block_count)
                /\ IntOf(ranges[i + 1].destination_block_number)
                       = IntOf(ranges[i].destination_block_number)
                           + IntOf(ranges[i].block_count)
          /\ \A k \in 1..Len(clone.invoked) :
                ~IsNone(clone.invoked[k].block_ranges) =>
                    Len(Val(clone.invoked[k].block_ranges)) \in 1..br_limit
          /\ SumBlockCounts(ranges) <= given.block_count
          /\ clone.pc = "returned" =>
                /\ SumBlockCounts(ranges) = given.block_count
                /\ given.block_count > 0 =>
                       \A k \in 1..Len(clone.invoked) :
                           ~IsNone(clone.invoked[k].block_ranges)
                /\ given.block_count = 0 =>
                       clone.invoked = <<[block_ranges |-> None]>>

\* C23 witness: a clone from a src_block above 0 has returned after more
\* than one clone-create call, one with several block ranges and the last
\* range shorter than bc_limit.
C23_Witness ==
    /\ clone.pc = "returned"
    /\ Val(clone.given).src_block > 0
    /\ Len(clone.invoked) >= 2
    /\ \E k \in 1..Len(clone.invoked) :
          Len(Val(clone.invoked[k].block_ranges)) >= 2
    /\ LET ranges == FlatRanges(clone.invoked)
       IN  IntOf(ranges[Len(ranges)].block_count) < bc_limit

\* ------------------------------------------- QoS policy groups soft delete
\* mark_qos_policy_group_for_deletion (526-550) renames the policy group of
\* a volume and then has remove_unused_qos_policy_groups (552-572) delete
\* every group that carries the prefix.
DELETED_PREFIX == "deleted_cinder_"

\* The calls of mark_qos_policy_group_for_deletion followed on one client.
MaxMarks == 2

\* What the caller passes as qos_policy_group_info: nothing, the info of a
\* legacy policy (no spec) or the info of a policy group made for a volume.
QosInfos ==
    {None, Some([spec |-> None])}
        \cup {Some([spec |-> Some([policy_name |-> name])]) :
                  name \in {"p1", "p2"}}

\* Lines 518-524: the request of qos_policy_group_rename.
RenameRequest(qos_policy_group_name, new_name) ==
    [api |-> "qos-policy-group-rename",
     policy_group_name |-> qos_policy_group_name,
     new_name |-> new_name]

\* Lines 554-565: the request of remove_unused_qos_policy_groups.
DeleteIterRequest ==
    [api |-> "qos-policy-group-delete-iter",
     policy_group |-> DELETED_PREFIX \o "*"]

\* The mutant of RenameCaught: the rename is not guarded.
RenameCaughtNothing(error) == FALSE

\* 'except netapp_api.NaApiError' around the rename (544)
RenameCaught(error) == error = "NaApiError"

\* 'except netapp_api.NaApiError' around the delete (569)
CleanupCaught(error) == error = "NaApiError"

\* Lines 526-543, and 550 with 552-567 when there is nothing to rename: the
\* call up to its first request.
MarkQos(qos_policy_group_info) ==
    /\ qos.pc \in {"idle", "returned", "raised"}
    /\ qos.marks < MaxMarks
    /\ LET started == [qos EXCEPT
                         !.qos_policy_group_info = qos_policy_group_info,
                         !.rename = None,
                         !.cleanup = None,
                         !.raised = None,
                         !.before = Len(qos.invoked),
                         !.marks = @ + 1]
       IN  qos' =
             IF IsNone(qos_policy_group_info)
             THEN [started EXCEPT !.pc = "returned"]
             ELSE IF IsNone(Val(qos_policy_group_info).spec)
             THEN [started EXCEPT
                     !.invoked = Append(@, DeleteIterRequest),
                     !.pc = "cleanup_sent"]
             ELSE LET current_name ==
                          Val(Val(qos_policy_group_info).spec).policy_name
                      new_name == DELETED_PREFIX \o current_name
                  IN  [started EXCEPT
                         !.invoked =
                             Append(@, RenameRequest(current_name, new_name)),
                         !.pc = "rename_sent"]
    /\ UNCHANGED <<pc, callerArgs, aliased, api_args, max_page_length,
                   result, num_records, next_tag, requests, pages,
                   fetchError, returned, raised, cancelledAfter, getter,
                   clone>>

\* The rename returns (543); the delete is requested (550, 552-567).
RenameDone ==
    /\ qos.pc = "rename_sent"
    /\ qos' = [qos EXCEPT !.rename = Some("ok"),
                          !.invoked = Append(@, DeleteIterRequest),
                          !.pc = "cleanup_sent"]
    /\ UNCHANGED <<pc, callerArgs, aliased, api_args, max_page_length,
                   result, num_records, next_tag, requests, pages,
                   fetchError, returned, raised, cancelledAfter, getter,
                   clone>>

\* The rename raises (543-547): a NaApiError is logged and the delete is
\* requested, anything else leaves the call.
RenameFail(error) ==
    /\ qos.pc = "rename_sent"
    /\ qos' = IF RenameCaught(error)
              THEN [qos EXCEPT !.rename = Some(error),
                               !.invoked = Append(@, DeleteIterRequest),
                               !.pc = "cleanup_sent"]
              ELSE [qos EXCEPT !.rename = Some(error),
                               !.raised = Some(error),
                               !.pc = "raised"]
    /\ UNCHANGED <<pc, callerArgs, aliased, api_args, max_page_length,
                   result, num_records, next_tag, requests, pages,
                   fetchError, returned, raised, cancelledAfter, getter,
                   clone>>

\* The delete returns (568) and so does the call.
CleanupDone ==
    /\ qos.pc = "cleanup_sent"
    /\ qos' = [qos EXCEPT !.cleanup = Some("ok"), !.pc = "returned"]
    /\ UNCHANGED <<pc, callerArgs, aliased, api_args, max_page_length,
                   result, num_records, next_tag, requests, pages,
                   fetchError, returned, raised, cancelledAfter, getter,
                   clone>>

\* The delete raises (567-572): a NaApiError is logged and the call
\* returns, anything else leaves the call.
CleanupFail(error) ==
    /\ qos.pc = "cleanup_sent"
    /\ qos' = IF CleanupCaught(error)
              THEN [qos EXCEPT !.cleanup = Some(error), !.pc = "returned"]
              ELSE [qos EXCEPT !.cleanup = Some(error),
                               !.raised = Some(error),
                               !.pc = "raised"]
    /\ UNCHANGED <<pc, callerArgs, aliased, api_args, max_page_length,
                   result, num_records, next_tag, requests, pages,
                   fetchError, returned, raised, cancelledAfter, getter,
                   clone>>

NextQos ==
    \/ \E qos_policy_group_info \in QosInfos :
         MarkQos(qos_policy_group_info)
    \/ RenameDone
    \/ \E error \in TransportErrors : RenameFail(error)
    \/ CleanupDone
    \/ \E error \in TransportErrors : CleanupFail(error)

SpecQos == InitOther /\ [][NextQos]_vars

\* The delete request was issued in the call that runs or ran last.
CleanupInvoked ==
    \E k \in (qos.before + 1)..Len(qos.invoked) :
        qos.invoked[k] = DeleteIterRequest

\* C24: a call with an info that is not None whose rename returned, failed
\* with NaApiError or was not due has issued the delete request once it is
\* past the rename; the rename asks for the name with the prefix; and no
\* NaApiError ever leaves the call: when nothing fails otherwise, the call
\* returns.
C24_CleanupAlwaysInvoked ==
    /\ qos.raised # Some("NaApiError")
    /\ (/\ ~IsNone(qos.qos_policy_group_info)
        /\ qos.pc \in {"cleanup_sent", "returned", "raised"}
        /\ qos.rename \in {None, Some("ok"), Some("NaApiError")})
           => CleanupInvoked
    /\ qos.rename = Some("NaApiError") => qos.pc # "raised" \/
           ~IsNone(qos.cleanup)
    /\ \A k \in 1..Len(qos.invoked) :
           qos.invoked[k].api = "qos-policy-group-rename" =>
               qos.invoked[k].new_name
                   = "deleted_cinder_" \o qos.invoked[k].policy_group_name

\* C24 witness: the rename and the delete both failed with NaApiError, the
\* delete request was issued after the rename and the call has returned.
C24_Witness ==
    /\ qos.pc = "returned"
    /\ qos.rename = Some("NaApiError")
    /\ qos.cleanup = Some("NaApiError")
    /\ CleanupInvoked
    /\ IsNone(qos.raised)

====
